---- MODULE Spec2Model ----
(***************************************************************************)
(* elf2rpl (tools/elf2rpl/main.cpp): the pipeline of passes that turns an  *)
(* ELF file model into an RPL.  The file model is one record               *)
(*    file = [header |-> [shstrndx, shnum, shoff], sections |-> <<...>>]   *)
(* Sequences are 1-based; every index the program stores in a field        *)
(* (shstrndx, link, info, shndx, sectionMap entries) keeps the program's   *)
(* 0-based value, so C++ sections[i] is sections[i + 1] here.              *)
(*                                                                         *)
(* 32-bit quantities (addresses, symbol values, relocation offsets) are    *)
(* pairs <<hi, lo>> of 16-bit halves, because 0xC0000000 does not fit the  *)
(* model checker's integers; U32Add and U32Sub wrap modulo 2^32.           *)
(***************************************************************************)
EXTENDS Integers, Sequences, FiniteSets, TLC

VARIABLES
    pc,        \* position of main(): the pass to run next, or "exit" / "ub"
    file,      \* ElfFile: header and sections
    pre,       \* the file as it was when the most recent pass started
    ran,       \* the passes run so far, in order, each with its result
    exitCode,  \* main's return value once pc = "exit", "none" before
    diag,      \* diagnostics printed so far
    loc,       \* locals of the most recent pass that the properties read
    outFile,   \* the output path: its state and, once written, what it holds
    input      \* the command line and the input file on disk

vars == <<pc, file, pre, ran, exitCode, diag, loc, outFile, input>>

----------------------------------------------------------------------------
(* 32-bit and wider unsigned arithmetic on <<hi, lo>> pairs *)

Half == 2^16

U32(hi, lo) == <<hi, lo>>

U32OfNat(n) == <<n \div Half, n % Half>>

\* a + b without wrapping (a size_t sum on a 64-bit host)
WideAdd(a, b) == <<a[1] + b[1] + ((a[2] + b[2]) \div Half), (a[2] + b[2]) % Half>>

\* a + b in uint32_t
U32Add(a, b) == LET w == WideAdd(a, b) IN <<w[1] % Half, w[2]>>

\* a - b in uint32_t
U32Sub(a, b) ==
    LET borrow == IF a[2] < b[2] THEN 1 ELSE 0
    IN  <<(a[1] - b[1] - borrow + 2 * Half) % Half, (a[2] - b[2] + Half) % Half>>

Le(a, b) == a[1] < b[1] \/ (a[1] = b[1] /\ a[2] <= b[2])

Lt(a, b) == Le(a, b) /\ a # b

Zero32 == U32(0, 0)

----------------------------------------------------------------------------
(* Program constants *)

DeflateMinSectionSize == 24
CodeBaseAddress == U32(512, 0)       \* 0x02000000
DataBaseAddress == U32(4096, 0)      \* 0x10000000
LoadBaseAddress == U32(49152, 0)     \* 0xC0000000

SHN_LORESERVE == 65280               \* 0xFF00
SHN_ABS == 65521                     \* 0xFFF1
SymbolSize == 16                     \* sizeof(elf::Symbol)
RelaSize == 12                       \* sizeof(elf::Rela)
HeaderSize == 52                     \* sizeof(elf::Header)
SectionHeaderSize == 40              \* sizeof(elf::SectionHeader)
FileInfoSize == 96                   \* sizeof(elf::RplFileInfo)

\* the output path before writeRpl
Untouched == [state |-> "untouched", header |-> <<>>, sections |-> <<>>]

\* what input holds once readElf has consumed the file
AlreadyRead == [argc |-> 3, status |-> "ok", sections |-> <<>>, shstrndx |-> 0]

----------------------------------------------------------------------------
(* Section payloads.  data is a tagged sequence: <<"raw", bytes>>,          *)
(* <<"sym", symbols>> (16 bytes each), <<"rela", records>> (12 bytes each), *)
(* <<"fileinfo", info>> (one elf::RplFileInfo), <<"crcs", crcs>> (4 bytes   *)
(* each) or <<"deflated", prefix, n, original>>: the 4-byte prefix and the  *)
(* n bytes zlib made of the original payload.                               *)

Raw(bytes) == <<"raw", bytes>>
SymData(syms) == <<"sym", syms>>
RelaData(relas) == <<"rela", relas>>
NoData == Raw(<<>>)

\* section->data.size()
DataSize(d) ==
    CASE d[1] = "raw" -> Len(d[2])
      [] d[1] = "sym" -> SymbolSize * Len(d[2])
      [] d[1] = "rela" -> RelaSize * Len(d[2])
      [] d[1] = "fileinfo" -> FileInfoSize
      [] d[1] = "crcs" -> 4 * Len(d[2])
      [] d[1] = "deflated" -> 4 + d[3]

\* reinterpret_cast<elf::Symbol *>(data.data()), data.size() / sizeof(elf::Symbol)
SymbolsOf(sec) == IF sec.data[1] = "sym" THEN sec.data[2] ELSE <<>>

NumSymbols(sec) == DataSize(sec.data) \div SymbolSize

\* reinterpret_cast<elf::Rela *>(data.data()), data.size() / sizeof(elf::Rela)
RelasOf(sec) == IF sec.data[1] = "rela" THEN sec.data[2] ELSE <<>>

Section(name, type, flags, addr, size, link, info, addralign, data) ==
    [name |-> name, type |-> type, flags |-> flags, addr |-> addr,
     offset |-> Zero32, size |-> size, link |-> link, info |-> info,
     addralign |-> addralign, entsize |-> 0, data |-> data]

Symbol(value, type, shndx) == [value |-> value, type |-> type, shndx |-> shndx]

Rela(offset, index, type, addend) ==
    [offset |-> offset, index |-> index, type |-> type, addend |-> addend]

----------------------------------------------------------------------------
(* Sequence helpers *)

Range(s) == {s[i] : i \in 1..Len(s)}

----------------------------------------------------------------------------
(* P3  reorderSectionIndex *)

IsCode(s) == s.type = "SHT_PROGBITS" /\ "SHF_EXECINSTR" \in s.flags
IsExports(s) == s.type = "SHT_RPL_EXPORTS"
IsReadOnlyData(s) ==
    s.type = "SHT_PROGBITS" /\ "SHF_EXECINSTR" \notin s.flags /\ "SHF_WRITE" \notin s.flags
IsWritableData(s) ==
    s.type = "SHT_PROGBITS" /\ "SHF_EXECINSTR" \notin s.flags /\ "SHF_WRITE" \in s.flags
IsBss(s) == s.type = "SHT_NOBITS"
IsRelocation(s) == s.type = "SHT_REL" \/ s.type = "SHT_RELA"
IsImports(s) == s.type = "SHT_RPL_IMPORTS"
IsSymOrStr(s) == s.type = "SHT_SYMTAB" \/ s.type = "SHT_STRTAB"

\* the condition of the b-th loop of lines 198-258
InBucket(s, b) ==
    CASE b = 1 -> IsCode(s)
      [] b = 2 -> IsExports(s)
      [] b = 3 -> IsReadOnlyData(s)
      [] b = 4 -> IsWritableData(s)
      [] b = 5 -> IsBss(s)
      [] b = 6 -> IsRelocation(s)
      [] b = 7 -> IsImports(s)
      [] b = 8 -> IsSymOrStr(s)

\* one loop: the 0-based indices i, ascending, whose section is in bucket b
Indices(secs, b) ==
    SelectSeq([i \in 1..Len(secs) |-> i - 1], LAMBDA i : InBucket(secs[i + 1], b))

SectionMapImportsFirst(secs) ==
    <<0>> \o Indices(secs, 1) \o Indices(secs, 2) \o Indices(secs, 3)
          \o Indices(secs, 4) \o Indices(secs, 5) \o Indices(secs, 7)
          \o Indices(secs, 6) \o Indices(secs, 8)

\* the map new index -> old index that lines 194-258 build
SectionMap(secs) ==
    <<0>> \o Indices(secs, 1) \o Indices(secs, 2) \o Indices(secs, 3)
          \o Indices(secs, 4) \o Indices(secs, 5) \o Indices(secs, 6)
          \o Indices(secs, 7) \o Indices(secs, 8)

\* the check of line 260
SectionMapAccepted(map, secs) == Len(map) = Len(secs)

\* std::move(file.sections[idx]) leaves a null pointer behind: a second move of
\* the same index puts a null section into the new list
MovesTwice(map) == \E i, j \in 1..Len(map) : i < j /\ map[i] = map[j]

\* lines 266-271
ApplyOrder(map, secs) == [k \in 1..Len(map) |-> secs[map[k] + 1]]

MapOldToNewWrong(map) == [old \in 0..(Len(map) - 1) |-> map[old + 1]]

\* lines 274-278: old index -> new index
MapOldToNew(map) ==
    [old \in 0..(Len(map) - 1) |-> (CHOOSE k \in 1..Len(map) : map[k] = old) - 1]

\* lines 298-311
MapSymbols(sec, inv) ==
    IF sec.type # "SHT_SYMTAB" THEN sec
    ELSE [sec EXCEPT !.data = SymData(
            [i \in 1..Len(SymbolsOf(sec)) |->
                LET sym == SymbolsOf(sec)[i]
                IN  IF sym.shndx < SHN_LORESERVE
                    THEN [sym EXCEPT !.shndx = inv[sym.shndx]]
                    ELSE sym])]

\* lines 284-295
MapHeaderFields(sec, inv) ==
    [sec EXCEPT !.link = inv[sec.link],
                !.info = IF sec.type = "SHT_RELA" THEN inv[sec.info] ELSE sec.info]

Reordered(f) ==
    LET map == SectionMap(f.sections)
        inv == MapOldToNew(map)
        moved == ApplyOrder(map, f.sections)
    IN  [header |-> [f.header EXCEPT !.shstrndx = inv[f.header.shstrndx]],
         sections |-> [k \in 1..Len(moved) |->
                          MapSymbols(MapHeaderFields(moved[k], inv), inv)]]

\* a pass returned false: main prints its line and returns -1
FailGoesOn(pass, printed) ==
    /\ pc' = "P12"
    /\ exitCode' = -1
    /\ ran' = Append(ran, <<pass, FALSE>>)
    /\ diag' = diag \o printed \o <<"ERROR: " \o pass \o " failed">>

\* main: the pass returned false
Fail(pass, printed) ==
    /\ pc' = "exit"
    /\ exitCode' = -1
    /\ ran' = Append(ran, <<pass, FALSE>>)
    /\ diag' = diag \o printed \o <<"ERROR: " \o pass \o " failed">>

ReorderRejected ==
    /\ pc = "P3"
    /\ ~SectionMapAccepted(SectionMap(file.sections), file.sections)
    /\ Fail("reorderSectionIndex", <<"Invalid section in elf file">>)
    /\ pre' = file
    /\ loc' = [pass |-> "reorderSectionIndex", sectionMap |-> SectionMap(file.sections)]
    /\ UNCHANGED <<file, outFile, input>>

\* the size check passes although an index occurs twice: the loops of lines
\* 284-311 then dereference a null section, which is undefined behaviour
ReorderNullDeref ==
    /\ pc = "P3"
    /\ SectionMapAccepted(SectionMap(file.sections), file.sections)
    /\ MovesTwice(SectionMap(file.sections))
    /\ pc' = "ub"
    /\ pre' = file
    /\ loc' = [pass |-> "reorderSectionIndex", sectionMap |-> SectionMap(file.sections)]
    /\ UNCHANGED <<file, ran, exitCode, diag, outFile, input>>

ReorderApplied ==
    /\ pc = "P3"
    /\ SectionMapAccepted(SectionMap(file.sections), file.sections)
    /\ ~MovesTwice(SectionMap(file.sections))
    /\ file' = Reordered(file)
    /\ pre' = file
    /\ loc' = [pass |-> "reorderSectionIndex", sectionMap |-> SectionMap(file.sections)]
    /\ pc' = "P4"
    /\ ran' = Append(ran, <<"reorderSectionIndex", TRUE>>)
    /\ UNCHANGED <<exitCode, diag, outFile, input>>

reorderSectionIndex == ReorderRejected \/ ReorderNullDeref \/ ReorderApplied

----------------------------------------------------------------------------
(* Inputs of reorderSectionIndex: section lists as readElf and fixBssNoBits  *)
(* can leave them.  Every index field is in range; within one file section   *)
(* i has link (i + r) % n and info (i + 2r + 1) % n, so that over the        *)
(* rotations r every (section, target) pair occurs; a symbol table holds one *)
(* symbol per section index and one SHN_ABS symbol.                          *)

MaxSections == 4

Kind(type, flags, name) == [type |-> type, flags |-> flags, name |-> name]

NullKind == Kind("SHT_NULL", {}, "")
TextKind == Kind("SHT_PROGBITS", {"SHF_ALLOC", "SHF_EXECINSTR"}, ".text")
StrtabKind == Kind("SHT_STRTAB", {}, ".strtab")

SectionKinds ==
    { NullKind, TextKind, StrtabKind,
      Kind("SHT_PROGBITS", {"SHF_ALLOC"}, ".rodata"),
      Kind("SHT_PROGBITS", {"SHF_ALLOC", "SHF_WRITE"}, ".data"),
      Kind("SHT_NOBITS", {"SHF_ALLOC", "SHF_WRITE"}, ".bss"),
      Kind("SHT_RELA", {}, ".rela.text"),
      Kind("SHT_REL", {}, ".rel.data"),
      Kind("SHT_RPL_EXPORTS", {"SHF_ALLOC"}, ".fexports"),
      Kind("SHT_RPL_IMPORTS", {"SHF_ALLOC"}, ".fimport_coreinit"),
      Kind("SHT_SYMTAB", {}, ".symtab") }

FirstKinds == {NullKind, TextKind}

KindLists ==
    UNION { { <<k0>> \o rest : k0 \in FirstKinds, rest \in [1..(n - 1) -> SectionKinds] }
            : n \in 1..MaxSections }

OneSymbolPerIndex(n) ==
    [i \in 1..(n + 1) |->
        IF i <= n THEN Symbol(Zero32, "STT_SECTION", i - 1)
        ELSE Symbol(Zero32, "STT_OBJECT", SHN_ABS)]

ReorderInput(kinds, r) ==
    LET n == Len(kinds)
    IN  [header |-> [shstrndx |-> (r + 1) % n, shnum |-> n, shoff |-> U32(0, 52)],
         sections |-> [k \in 1..n |->
            Section(kinds[k].name, kinds[k].type, kinds[k].flags, Zero32,
                    IF kinds[k].type = "SHT_NOBITS" THEN 64 ELSE 0,
                    (k - 1 + r) % n, (k + 2 * r) % n, 1,
                    IF kinds[k].type = "SHT_SYMTAB"
                    THEN SymData(OneSymbolPerIndex(n)) ELSE NoData)]]

ReorderInputs == { ReorderInput(kinds, r) : kinds \in KindLists, r \in 0..(MaxSections - 1) }

AfterBss == << <<"readElf", TRUE>>, <<"fixBssNoBits", TRUE>> >>

InitReorder ==
    /\ pc = "P3"
    /\ file \in ReorderInputs
    /\ pre = file
    /\ ran = AfterBss
    /\ exitCode = "none"
    /\ diag = <<>>
    /\ loc = [pass |-> "fixBssNoBits"]
    /\ outFile = Untouched
    /\ input = AlreadyRead

SpecReorder == InitReorder /\ [][reorderSectionIndex]_vars

----------------------------------------------------------------------------
(* Properties of reorderSectionIndex *)

\* the most recent pass was p, and it returned true
Returned(p) == loc.pass = p /\ ran # <<>> /\ ran[Len(ran)] = <<p, TRUE>>

IsPermutation(map, n) ==
    Len(map) = n /\ \A old \in 0..(n - 1) : Cardinality({k \in 1..n : map[k] = old}) = 1

\* inv of a permutation: inv[old] is the new index of old
InverseOf(map) ==
    [old \in 0..(Len(map) - 1) |-> (CHOOSE k \in 1..Len(map) : map[k] = old) - 1]

RecognisedTypes ==
    {"SHT_PROGBITS", "SHT_RPL_EXPORTS", "SHT_NOBITS", "SHT_REL", "SHT_RELA",
     "SHT_RPL_IMPORTS", "SHT_SYMTAB", "SHT_STRTAB"}

ValidReorderInput(f) ==
    LET n == Len(f.sections)
    IN  /\ n >= 1
        /\ f.sections[1].type = "SHT_NULL"
        /\ \A k \in 2..n : f.sections[k].type \in RecognisedTypes
        /\ f.header.shstrndx \in 0..(n - 1)
        /\ \A k \in 1..n :
              /\ f.sections[k].link \in 0..(n - 1)
              /\ f.sections[k].info \in 0..(n - 1)
              /\ \A i \in 1..Len(SymbolsOf(f.sections[k])) :
                    LET shndx == SymbolsOf(f.sections[k])[i].shndx
                    IN  shndx < SHN_LORESERVE => shndx \in 0..(n - 1)

\* new is old with nothing but the index fields changed
SameSectionBody(old, new) ==
    /\ new.name = old.name /\ new.type = old.type /\ new.flags = old.flags
    /\ new.addr = old.addr /\ new.offset = old.offset /\ new.size = old.size
    /\ new.addralign = old.addralign /\ new.entsize = old.entsize
    /\ new.data[1] = old.data[1]
    /\ DataSize(new.data) = DataSize(old.data)
    /\ old.type # "SHT_SYMTAB" => new.data = old.data
    /\ old.type # "SHT_RELA" => new.info = old.info

SymbolsRemapped(old, new, inv) ==
    old.type = "SHT_SYMTAB" =>
        \A i \in 1..Len(SymbolsOf(old)) :
            LET o == SymbolsOf(old)[i]
                m == SymbolsOf(new)[i]
            IN  /\ m.value = o.value /\ m.type = o.type
                /\ o.shndx < SHN_LORESERVE => m.shndx = inv[o.shndx]
                /\ o.shndx >= SHN_LORESERVE => m.shndx = o.shndx

\* C1: for a valid input, after reorderSectionIndex the section that was at
\* old index i is at inv[i], and shstrndx, every link, every RELA info and
\* every symbol shndx below SHN_LORESERVE is inv[old value]; a shndx at or
\* above SHN_LORESERVE is unchanged.
C1_IndexFieldsFollowSections ==
    (Returned("reorderSectionIndex") /\ ValidReorderInput(pre)) =>
        LET n == Len(pre.sections)
            inv == InverseOf(loc.sectionMap)
        IN  /\ IsPermutation(loc.sectionMap, n)
            /\ Len(file.sections) = n
            /\ file.header.shstrndx = inv[pre.header.shstrndx]
            /\ \A i \in 0..(n - 1) :
                  LET old == pre.sections[i + 1]
                      new == file.sections[inv[i] + 1]
                  IN  /\ SameSectionBody(old, new)
                      /\ new.link = inv[old.link]
                      /\ old.type = "SHT_RELA" => new.info = inv[old.info]
                      /\ SymbolsRemapped(old, new, inv)

IsIdentity(map) == \A k \in 1..Len(map) : map[k] = k - 1

\* a valid input with a symbol table and a RELA section, reordered by a
\* permutation that is not its own inverse
C1_Witness ==
    /\ Returned("reorderSectionIndex") /\ ValidReorderInput(pre)
    /\ \E k \in 1..Len(loc.sectionMap) :
          InverseOf(loc.sectionMap)[k - 1] # loc.sectionMap[k]
    /\ \E k \in 1..Len(pre.sections) : pre.sections[k].type = "SHT_SYMTAB"
    /\ \E k \in 1..Len(pre.sections) :
          pre.sections[k].type = "SHT_RELA" /\ pre.sections[k].info # file.sections[k].info

\* C5: reorderSectionIndex fails, leaving the section list as it was, whenever
\* the index list it builds is not a permutation of the section indices, and
\* succeeds only when it is one.
C5_FailsUnlessPermutation ==
    loc.pass = "reorderSectionIndex" =>
        IF IsPermutation(loc.sectionMap, Len(pre.sections))
        THEN Returned("reorderSectionIndex")
        ELSE pc = "exit" /\ exitCode = -1 /\ file = pre
             /\ ran[Len(ran)] = <<"reorderSectionIndex", FALSE>>

\* the rank the canonical order gives a section that is not section 0
BucketRank(s) ==
    CASE s.type = "SHT_PROGBITS" /\ "SHF_EXECINSTR" \in s.flags -> 1
      [] s.type = "SHT_RPL_EXPORTS" -> 2
      [] s.type = "SHT_PROGBITS" /\ s.flags \cap {"SHF_EXECINSTR", "SHF_WRITE"} = {} -> 3
      [] s.type = "SHT_PROGBITS" /\ "SHF_WRITE" \in s.flags -> 4
      [] s.type = "SHT_NOBITS" -> 5
      [] s.type \in {"SHT_REL", "SHT_RELA"} -> 6
      [] s.type = "SHT_RPL_IMPORTS" -> 7
      [] s.type \in {"SHT_SYMTAB", "SHT_STRTAB"} -> 8
      [] OTHER -> 0

----------------------------------------------------------------------------
(* P4  fixRelocations *)
(* A record's info word is kept as its two parts: index = info >> 8 and     *)
(* type = info & 0xFF (lines 490-491); (index << 8) | type puts them back.  *)
(* addend is the 32-bit two's complement word, so addend + 2 is U32Add.     *)

AcceptedRelocationTypes ==
    {"R_PPC_NONE", "R_PPC_ADDR32", "R_PPC_ADDR16_LO", "R_PPC_ADDR16_HI",
     "R_PPC_ADDR16_HA", "R_PPC_REL24", "R_PPC_REL14", "R_PPC_DTPMOD32",
     "R_PPC_DTPREL32", "R_PPC_EMB_SDA21", "R_PPC_EMB_RELSDA",
     "R_PPC_DIAB_SDA21_LO", "R_PPC_DIAB_SDA21_HI", "R_PPC_DIAB_SDA21_HA",
     "R_PPC_DIAB_RELSDA_LO", "R_PPC_DIAB_RELSDA_HI", "R_PPC_DIAB_RELSDA_HA"}

Two32 == U32(0, 2)

\* getSymbol: false when index >= numSymbols
getSymbol(section, index) == index < NumSymbols(section)

\* lines 528-530
Rel16Hi(rel) == [rel EXCEPT !.type = "R_PPC_GHS_REL16_HI"]

Rel16LoSameOffset(rel) ==
    Rela(rel.offset, rel.index, "R_PPC_GHS_REL16_LO", U32Add(rel.addend, Two32))

\* lines 533-535
Rel16Lo(rel) ==
    Rela(U32Add(rel.offset, Two32), rel.index, "R_PPC_GHS_REL16_LO",
         U32Add(rel.addend, Two32))

NeverCounted(unsupportedTypes, type) == FALSE

\* line 543: unsupportedTypes.count(type)
Counted(unsupportedTypes, type) == type \in unsupportedTypes

\* the loop of lines 486-548 from record i on.  st holds rels (the records,
\* rewritten in place), newRelocations, printed (what fmt::print wrote),
\* unsupportedTypes and result.
RECURSIVE FixRecords(_, _, _)
FixRecords(st, symbolSection, i) ==
    IF i > Len(st.rels) THEN st
    ELSE LET rel == st.rels[i]
             next ==
               CASE rel.type \in AcceptedRelocationTypes -> st
                 [] rel.type = "R_PPC_REL32" ->
                      IF ~getSymbol(symbolSection, rel.index)
                      THEN [st EXCEPT
                              !.printed = Append(@, <<"Could not find symbol", rel.index>>),
                              !.result = FALSE]
                      ELSE [st EXCEPT
                              !.rels[i] = Rel16Hi(rel),
                              !.newRelocations = Append(@, Rel16Lo(rel))]
                 [] OTHER ->
                      [st EXCEPT
                         !.printed = IF Counted(st.unsupportedTypes, rel.type) THEN @
                                     ELSE Append(@, <<"Unsupported relocation type", rel.type>>),
                         !.unsupportedTypes = @ \cup {rel.type}]
         IN  FixRecords(next, symbolSection, i + 1)

\* the loop of lines 471-553 from section k on
RECURSIVE FixSections(_, _)
FixSections(st, k) ==
    IF k > Len(st.sections) THEN st
    ELSE LET section == st.sections[k]
         IN  IF section.type # "SHT_RELA" THEN FixSections(st, k + 1)
             ELSE LET symbolSection == st.sections[section.link + 1]
                      done == FixRecords([rels |-> RelasOf(section),
                                          newRelocations |-> <<>>,
                                          printed |-> st.printed,
                                          unsupportedTypes |-> st.unsupportedTypes,
                                          result |-> st.result],
                                         symbolSection, 1)
                      fixed == [section EXCEPT
                                  !.flags = {},
                                  !.data = RelaData(done.rels \o done.newRelocations)]
                  IN  FixSections([sections |-> [st.sections EXCEPT ![k] = fixed],
                                   printed |-> done.printed,
                                   unsupportedTypes |-> done.unsupportedTypes,
                                   result |-> done.result],
                                  k + 1)

FixedRelocations(f) ==
    FixSections([sections |-> f.sections, printed |-> <<>>,
                 unsupportedTypes |-> {}, result |-> TRUE], 1)

\* line 555
RelocationsOk(st) == st.result /\ Cardinality(st.unsupportedTypes) = 0

RelocationsFixed ==
    /\ pc = "P4"
    /\ RelocationsOk(FixedRelocations(file))
    /\ file' = [file EXCEPT !.sections = FixedRelocations(file).sections]
    /\ pre' = file
    /\ loc' = [pass |-> "fixRelocations", printed |-> FixedRelocations(file).printed]
    /\ pc' = "P5"
    /\ ran' = Append(ran, <<"fixRelocations", TRUE>>)
    /\ diag' = diag \o FixedRelocations(file).printed
    /\ UNCHANGED <<exitCode, outFile, input>>

RelocationsRejected ==
    /\ pc = "P4"
    /\ ~RelocationsOk(FixedRelocations(file))
    /\ file' = [file EXCEPT !.sections = FixedRelocations(file).sections]
    /\ pre' = file
    /\ loc' = [pass |-> "fixRelocations", printed |-> FixedRelocations(file).printed]
    /\ Fail("fixRelocations", FixedRelocations(file).printed)
    /\ UNCHANGED <<outFile, input>>

fixRelocations == RelocationsFixed \/ RelocationsRejected

----------------------------------------------------------------------------
(* Inputs of fixRelocations: a reordered file with two RELA sections linked  *)
(* to a symbol table of two symbols.  The first holds up to MaxRelas records *)
(* and the second at most one, each drawn from RelaChoices.                  *)

MaxRelas == 3

TopOffset == U32(65535, 65534)       \* 0xFFFFFFFE: offset + 2 wraps to 0
MinusTwo == U32(65535, 65534)        \* addend -2

RelaChoices ==
    { Rela(U32(512, 16), 0, "R_PPC_ADDR32", Zero32),
      Rela(U32(512, 32), 2, "R_PPC_REL24", U32(0, 4)),
      Rela(U32(512, 16), 1, "R_PPC_REL32", Zero32),
      Rela(TopOffset, 0, "R_PPC_REL32", MinusTwo),
      Rela(U32(512, 48), 2, "R_PPC_REL32", Zero32),
      Rela(U32(512, 20), 1, "R_PPC_ADDR24", Zero32),
      Rela(U32(512, 24), 1, "R_PPC_ADDR14", Zero32),
      Rela(U32(512, 28), 1, "R_PPC_GHS_REL16_HI", Zero32) }

RelaLists(max) == UNION { [1..n -> RelaChoices] : n \in 0..max }

RelocInput(first, second) ==
    [header |-> [shstrndx |-> 0, shnum |-> 5, shoff |-> U32(0, 52)],
     sections |-> <<
        Section("", "SHT_NULL", {}, Zero32, 0, 0, 0, 0, NoData),
        Section(".text", "SHT_PROGBITS", {"SHF_ALLOC", "SHF_EXECINSTR"},
                CodeBaseAddress, 64, 0, 0, 32, Raw([i \in 1..4 |-> 96])),
        Section(".rela.text", "SHT_RELA", {"SHF_INFO_LINK"}, Zero32,
                RelaSize * Len(first), 4, 1, 4, RelaData(first)),
        Section(".rela.data", "SHT_RELA", {"SHF_INFO_LINK"}, Zero32,
                RelaSize * Len(second), 4, 1, 4, RelaData(second)),
        Section(".symtab", "SHT_SYMTAB", {}, Zero32, 2 * SymbolSize, 0, 0, 4,
                SymData(<<Symbol(Zero32, "STT_NOTYPE", 0),
                          Symbol(CodeBaseAddress, "STT_FUNC", 1)>>)) >>]

RelocInputs == { RelocInput(a, b) : a \in RelaLists(MaxRelas), b \in RelaLists(1) }

AfterReorder == Append(AfterBss, <<"reorderSectionIndex", TRUE>>)

InitReloc ==
    /\ pc = "P4"
    /\ file \in RelocInputs
    /\ pre = file
    /\ ran = AfterReorder
    /\ exitCode = "none"
    /\ diag = <<>>
    /\ loc = [pass |-> "reorderSectionIndex"]
    /\ outFile = Untouched
    /\ input = AlreadyRead

SpecReloc == InitReloc /\ [][fixRelocations]_vars

----------------------------------------------------------------------------
(* Properties of fixRelocations *)

\* the 1-based positions of the RELA sections
RelaSections(f) == {k \in 1..Len(f.sections) : f.sections[k].type = "SHT_RELA"}

\* a REL32 record of section sec whose symbol index is within the symbol
\* table the section links to
LowerableIn(f, sec, rel) ==
    rel.type = "R_PPC_REL32" /\ rel.index < NumSymbols(f.sections[sec.link + 1])

\* the positions i <= n of the records of rels that satisfy LowerableIn
LowerablePositions(f, sec, n) ==
    {i \in 1..n : LowerableIn(f, sec, RelasOf(sec)[i])}

Rel32Positions(sec) ==
    {i \in 1..Len(RelasOf(sec)) : RelasOf(sec)[i].type = "R_PPC_REL32"}

\* what C7 says of the records themselves: originals rewritten in place,
\* one LO record appended per lowered original, in the originals' order
RecordsLowered(old, new, f) ==
    LET R == RelasOf(old)
        N == RelasOf(new)
        n == Len(R)
    IN  /\ Len(N) >= n
        /\ \A i \in 1..n :
              IF LowerableIn(f, old, R[i])
              THEN LET j == n + Cardinality(LowerablePositions(f, old, i))
                   IN  /\ N[i] = Rela(R[i].offset, R[i].index, "R_PPC_GHS_REL16_HI", R[i].addend)
                       /\ j <= Len(N)
                       /\ N[j] = Rela(U32Add(R[i].offset, Two32), R[i].index,
                                       "R_PPC_GHS_REL16_LO", U32Add(R[i].addend, Two32))
              ELSE N[i] = R[i]

\* C7 as stated: every RELA section ends with its original record count
\* plus its number of REL32 records.
C7_AsStated ==
    loc.pass = "fixRelocations" =>
        \A k \in RelaSections(pre) :
            /\ RecordsLowered(pre.sections[k], file.sections[k], pre)
            /\ Len(RelasOf(file.sections[k]))
                  = Len(RelasOf(pre.sections[k])) + Cardinality(Rel32Positions(pre.sections[k]))

\* C7 (amended): every in-range REL32 record becomes GHS_REL16_HI in place
\* with index, offset and addend kept, and one GHS_REL16_LO record with
\* offset + 2 and addend + 2 is appended after the originals, in the order of
\* the originals; every other record is unchanged; the section ends with the
\* original count plus the number of in-range REL32 records.
C7_Rel32Lowered ==
    loc.pass = "fixRelocations" =>
        \A k \in RelaSections(pre) :
            /\ RecordsLowered(pre.sections[k], file.sections[k], pre)
            /\ Len(RelasOf(file.sections[k]))
                  = Len(RelasOf(pre.sections[k]))
                    + Cardinality(LowerablePositions(pre, pre.sections[k],
                                                     Len(RelasOf(pre.sections[k]))))

\* a section with two in-range REL32 records, different from each other,
\* and an accepted record behind them
C7_Witness ==
    /\ loc.pass = "fixRelocations"
    /\ \E k \in RelaSections(pre) :
          LET R == RelasOf(pre.sections[k])
          IN  /\ Len(R) = 3
              /\ LowerableIn(pre, pre.sections[k], R[1])
              /\ LowerableIn(pre, pre.sections[k], R[2])
              /\ R[1] # R[2]
              /\ R[3].type \in AcceptedRelocationTypes
              /\ Len(RelasOf(file.sections[k])) = 5

AllRelas(f) ==
    UNION { {RelasOf(f.sections[k])[i] : i \in 1..Len(RelasOf(f.sections[k]))}
            : k \in RelaSections(f) }

\* the unsupported types that occur in the input
UnsupportedIn(f) ==
    {r.type : r \in AllRelas(f)} \ (AcceptedRelocationTypes \cup {"R_PPC_REL32"})

MissingSymbolIn(f) ==
    \E k \in RelaSections(f) : \E i \in 1..Len(RelasOf(f.sections[k])) :
        LET r == RelasOf(f.sections[k])[i]
        IN  r.type = "R_PPC_REL32" /\ r.index >= NumSymbols(f.sections[f.sections[k].link + 1])

TimesPrinted(msg) == Cardinality({i \in 1..Len(loc.printed) : loc.printed[i] = msg})

\* C8: fixRelocations returns false exactly when some record has an
\* unsupported type or some REL32 record has a symbol index out of range,
\* and it prints one diagnostic per distinct unsupported type.
C8_FailsExactlyOnBadRecords ==
    loc.pass = "fixRelocations" =>
        /\ ran[Len(ran)][1] = "fixRelocations"
        /\ ran[Len(ran)][2] = ~(UnsupportedIn(pre) # {} \/ MissingSymbolIn(pre))
        /\ ~ran[Len(ran)][2] => pc = "exit" /\ exitCode = -1
        /\ \A t \in UnsupportedIn(pre) :
              TimesPrinted(<<"Unsupported relocation type", t>>) = 1
        /\ \A i \in 1..Len(loc.printed) :
              loc.printed[i][1] = "Unsupported relocation type"
                  => loc.printed[i][2] \in UnsupportedIn(pre)

\* one unsupported type carried by three records in two sections, and a
\* second unsupported type
C8_Witness ==
    /\ loc.pass = "fixRelocations"
    /\ Cardinality(UnsupportedIn(pre)) = 2
    /\ \E t \in UnsupportedIn(pre) :
          /\ Cardinality({i \in 1..Len(RelasOf(pre.sections[3])) :
                            RelasOf(pre.sections[3])[i].type = t}) = 2
          /\ \E i \in 1..Len(RelasOf(pre.sections[4])) : RelasOf(pre.sections[4])[i].type = t
    /\ ran[Len(ran)] = <<"fixRelocations", FALSE>>

----------------------------------------------------------------------------
(* P5  fixSectionAlign *)

AlignedSection(section) ==
    CASE section.type = "SHT_PROGBITS" -> [section EXCEPT !.addralign = 32]
      [] section.type = "SHT_NOBITS" -> [section EXCEPT !.addralign = 64]
      [] section.type = "SHT_RPL_IMPORTS" -> [section EXCEPT !.addralign = 4]
      [] OTHER -> section

fixSectionAlign ==
    /\ pc = "P5"
    /\ file' = [file EXCEPT !.sections =
                    [k \in 1..Len(file.sections) |-> AlignedSection(file.sections[k])]]
    /\ pre' = file
    /\ loc' = [pass |-> "fixSectionAlign"]
    /\ pc' = "P6"
    /\ ran' = Append(ran, <<"fixSectionAlign", TRUE>>)
    /\ UNCHANGED <<exitCode, diag, outFile, input>>

----------------------------------------------------------------------------
(* P6  fixLoaderVirtualAddresses and relocateSection *)

\* align_up of utils.h for an alignment that is a power of two up to 2^16:
\* the least multiple of alignment that is >= value, in uint32_t
align_up(value, alignment) ==
    LET lo == ((value[2] + alignment - 1) \div alignment) * alignment
    IN  <<(value[1] + lo \div Half) % Half, lo % Half>>

\* getSectionIndex: the 0-based index of the first section named name, or -1
getSectionIndex(f, name) ==
    IF \E k \in 1..Len(f.sections) : f.sections[k].name = name
    THEN (CHOOSE k \in 1..Len(f.sections) :
             /\ f.sections[k].name = name
             /\ \A j \in 1..(k - 1) : f.sections[j].name # name) - 1
    ELSE -1

RelocatedSymbolTypes == {"STT_OBJECT", "STT_FUNC", "STT_SECTION"}

\* line 611
SectionSize(section) ==
    IF DataSize(section.data) # 0 THEN DataSize(section.data) ELSE section.size

\* lines 634 and 651: oldSectionAddress <= v <= oldSectionAddressEnd
InOldWindow(v, oldAddr, size) == Le(oldAddr, v) /\ Le(v, WideAdd(oldAddr, U32OfNat(size)))

\* lines 635 and 652
Shifted(v, oldAddr, newAddr) == U32Add(U32Sub(v, oldAddr), newAddr)

\* lines 616-638 for one section
RelocateSymbols(symSection, oldAddr, size, newAddr) ==
    IF symSection.type # "SHT_SYMTAB" THEN symSection
    ELSE [symSection EXCEPT !.data = SymData(
            [i \in 1..Len(SymbolsOf(symSection)) |->
                LET sym == SymbolsOf(symSection)[i]
                IN  IF sym.type \in RelocatedSymbolTypes
                       /\ InOldWindow(sym.value, oldAddr, size)
                    THEN [sym EXCEPT !.value = Shifted(sym.value, oldAddr, newAddr)]
                    ELSE sym])]

\* lines 641-655 for one section
RelocateRelas(relaSection, oldAddr, size, newAddr) ==
    IF relaSection.type # "SHT_RELA" THEN relaSection
    ELSE [relaSection EXCEPT !.data = RelaData(
            [i \in 1..Len(RelasOf(relaSection)) |->
                LET rel == RelasOf(relaSection)[i]
                IN  IF InOldWindow(rel.offset, oldAddr, size)
                    THEN [rel EXCEPT !.offset = Shifted(rel.offset, oldAddr, newAddr)]
                    ELSE rel])]

\* relocateSection(file, *file.sections[k - 1], newSectionAddress)
relocateSection(secs, k, newSectionAddress) ==
    LET oldAddr == secs[k].addr
        size == SectionSize(secs[k])
        fixed == [j \in 1..Len(secs) |->
                    RelocateRelas(RelocateSymbols(secs[j], oldAddr, size, newSectionAddress),
                                  oldAddr, size, newSectionAddress)]
    IN  [fixed EXCEPT ![k].addr = newSectionAddress]

NamedLoaderSections == <<".fexports", ".dexports", ".symtab", ".strtab", ".shstrtab">>

AllocatedByName == {".symtab", ".strtab", ".shstrtab"}

\* the sections lines 678-717 relocate, in the order they do: each is
\* <<1-based position, whether line 693/700/707 sets SHF_ALLOC>>
LoaderOrder(f) ==
    LET named == SelectSeq(NamedLoaderSections, LAMBDA nm : getSectionIndex(f, nm) # -1)
    IN  [i \in 1..Len(named) |->
            <<getSectionIndex(f, named[i]) + 1, named[i] \in AllocatedByName>>]
        \o SelectSeq([k \in 1..Len(f.sections) |-> <<k, FALSE>>],
                     LAMBDA e : f.sections[e[1]].type = "SHT_RPL_IMPORTS")

\* one block of lines 678-717: place at the aligned cursor, then addr += size.
\* st is [sections, addr, placed]; placed records every step for the properties.
PlaceSection(st, k, alloc) ==
    LET section == st.sections[k]
        newAddr == align_up(st.addr, section.addralign)
        moved == relocateSection(st.sections, k, newAddr)
        after == U32Add(st.addr, U32OfNat(DataSize(section.data)))
    IN  [sections |-> IF alloc
                      THEN [moved EXCEPT ![k].flags = @ \cup {"SHF_ALLOC"}]
                      ELSE moved,
         addr |-> after,
         placed |-> Append(st.placed,
                           [index |-> k, oldAddr |-> section.addr,
                            window |-> SectionSize(section), cursor |-> st.addr,
                            newAddr |-> newAddr, length |-> DataSize(section.data),
                            cursorAfter |-> after])]

RECURSIVE PlaceAll(_, _, _)
PlaceAll(st, order, i) ==
    IF i > Len(order) THEN st
    ELSE PlaceAll(PlaceSection(st, order[i][1], order[i][2]), order, i + 1)

LoaderAddressesFixed(f) ==
    PlaceAll([sections |-> f.sections, addr |-> LoadBaseAddress, placed |-> <<>>],
             LoaderOrder(f), 1)

fixLoaderVirtualAddresses ==
    /\ pc = "P6"
    /\ file' = [file EXCEPT !.sections = LoaderAddressesFixed(file).sections]
    /\ pre' = file
    /\ loc' = [pass |-> "fixLoaderVirtualAddresses",
               placed |-> LoaderAddressesFixed(file).placed]
    /\ pc' = "P7"
    /\ ran' = Append(ran, <<"fixLoaderVirtualAddresses", TRUE>>)
    /\ UNCHANGED <<exitCode, diag, outFile, input>>

----------------------------------------------------------------------------
(* Inputs of fixSectionAlign and fixLoaderVirtualAddresses: reordered files  *)
(* with the sections the loader sees.  Export and import sections come from  *)
(* the linker at addresses in the loader region, the symbol and string       *)
(* tables at address 0.                                                      *)

MaxImports == 2

Bytes(n) == Raw([i \in 1..n |-> 1])

\* payload length and addralign of .fexports, <<>> when the file has none
FexportsChoices == {<<>>, <<1, 1>>, <<8, 4>>}

DexportsChoices == {<<>>, <<2, 4>>}

\* payload length and old address of an RPL_IMPORTS section
ImportChoices ==
    { <<8, LoadBaseAddress>>, <<9, LoadBaseAddress>>,
      <<9, U32(49152, 16)>>, <<0, U32(49152, 32)>> }

ImportLists == UNION { [1..n -> ImportChoices] : n \in 0..MaxImports }

LoaderValues == {Zero32, LoadBaseAddress, U32(49152, 8), U32(512, 16)}

SymbolChoices ==
    { Symbol(v, t, 1) : v \in LoaderValues, t \in {"STT_OBJECT"} }
    \cup {Symbol(Zero32, "STT_NOTYPE", 0), Symbol(Zero32, "STT_SECTION", 1)}

ImportName(i) == IF i = 1 THEN ".fimport_coreinit" ELSE ".dimport_coreinit"

\* old addresses of .symtab, .strtab and .shstrtab: all 0, as the linker
\* leaves sections it does not allocate, or three separate addresses
TableAddresses == { <<Zero32, Zero32, Zero32>>, <<Zero32, U32(0, 4096), U32(0, 8192)>> }

\* the file before its link fields are known
LoaderSections(fexp, dexp, imps, sym, offset, strLen, at) ==
    << Section("", "SHT_NULL", {}, Zero32, 0, 0, 0, 0, NoData),
       Section(".text", "SHT_PROGBITS", {"SHF_ALLOC", "SHF_EXECINSTR"},
               CodeBaseAddress, 4, 0, 0, 4, Bytes(4)) >>
    \o (IF fexp = <<>> THEN <<>>
        ELSE <<Section(".fexports", "SHT_RPL_EXPORTS", {"SHF_ALLOC"},
                       LoadBaseAddress, fexp[1], 0, 0, fexp[2], Bytes(fexp[1]))>>)
    \o (IF dexp = <<>> THEN <<>>
        ELSE <<Section(".dexports", "SHT_RPL_EXPORTS", {"SHF_ALLOC"},
                       U32(49152, 8), dexp[1], 0, 0, dexp[2], Bytes(dexp[1]))>>)
    \o << Section(".rela.text", "SHT_RELA", {}, Zero32, RelaSize, 0, 1, 4,
                  RelaData(<<Rela(offset, 0, "R_PPC_ADDR32", Zero32)>>)) >>
    \o [i \in 1..Len(imps) |->
          Section(ImportName(i), "SHT_RPL_IMPORTS", {"SHF_ALLOC"},
                  imps[i][2], imps[i][1], 0, 0, 1, Bytes(imps[i][1]))]
    \o << Section(".symtab", "SHT_SYMTAB", {}, at[1], SymbolSize, 0, 0, 4,
                  SymData(<<sym>>)),
          Section(".strtab", "SHT_STRTAB", {}, at[2], strLen, 0, 0, 1, Bytes(strLen)),
          Section(".shstrtab", "SHT_STRTAB", {}, at[3], 7, 0, 0, 1, Bytes(7)) >>

\* the same file with .rela.text and .symtab linked as the linker links them
Linked(secs) ==
    LET f == [header |-> [shstrndx |-> 0, shnum |-> Len(secs), shoff |-> U32(0, 52)],
              sections |-> secs]
        symtab == getSectionIndex(f, ".symtab")
        strtab == getSectionIndex(f, ".strtab")
    IN  [header |-> [f.header EXCEPT !.shstrndx = getSectionIndex(f, ".shstrtab")],
         sections |-> [k \in 1..Len(secs) |->
            CASE secs[k].type = "SHT_RELA" -> [secs[k] EXCEPT !.link = symtab]
              [] secs[k].type = "SHT_SYMTAB" -> [secs[k] EXCEPT !.link = strtab]
              [] OTHER -> secs[k]]]

LoaderInputs ==
    { Linked(LoaderSections(fexp, dexp, imps, sym, offset, strLen, at)) :
        fexp \in FexportsChoices, dexp \in DexportsChoices, imps \in ImportLists,
        sym \in SymbolChoices, offset \in LoaderValues, strLen \in {1, 5},
        at \in TableAddresses }

AfterRelocations == Append(AfterReorder, <<"fixRelocations", TRUE>>)

InitLoader ==
    /\ pc = "P5"
    /\ file \in LoaderInputs
    /\ pre = file
    /\ ran = AfterRelocations
    /\ exitCode = "none"
    /\ diag = <<>>
    /\ loc = [pass |-> "fixRelocations", printed |-> <<>>]
    /\ outFile = Untouched
    /\ input = AlreadyRead

NextLoader == fixSectionAlign \/ fixLoaderVirtualAddresses

SpecLoader == InitLoader /\ [][NextLoader]_vars

----------------------------------------------------------------------------
(* Properties of fixLoaderVirtualAddresses *)

LoaderNames == {".fexports", ".dexports", ".symtab", ".strtab", ".shstrtab"}

\* the 1-based positions of the loader-visible sections
LoaderVisible(f) ==
    {k \in 1..Len(f.sections) :
        f.sections[k].name \in LoaderNames \/ f.sections[k].type = "SHT_RPL_IMPORTS"}

\* v lay in the old window [addr, addr + size] of section k of f
InWindowOf(v, f, k) ==
    /\ Le(f.sections[k].addr, v)
    /\ Le(v, WideAdd(f.sections[k].addr, U32OfNat(SectionSize(f.sections[k]))))

\* v moved with section k: (v - old_addr) + new_addr
MovedWith(v, k) == U32Add(U32Sub(v, pre.sections[k].addr), file.sections[k].addr)

\* what C2 demands of one address word: old before the pass, new after it
ShiftedOnce(old, new, moves) ==
    /\ \A k \in LoaderVisible(pre) :
          (moves /\ InWindowOf(old, pre, k)) => new = MovedWith(old, k)
    /\ ~(moves /\ \E k \in LoaderVisible(pre) : InWindowOf(old, pre, k)) => new = old

\* C2: after fixLoaderVirtualAddresses every OBJECT, FUNC or SECTION symbol
\* whose old value lay in the old window of a relocated section has value
\* (old_value - old_addr) + new_addr of that section, every RELA offset in
\* such a window is shifted the same way, and every other symbol value and
\* RELA offset is unchanged.
C2_ShiftedExactlyOnce ==
    loc.pass = "fixLoaderVirtualAddresses" =>
        \A k \in 1..Len(pre.sections) :
            /\ pre.sections[k].type = "SHT_SYMTAB" =>
                  \A i \in 1..Len(SymbolsOf(pre.sections[k])) :
                      ShiftedOnce(SymbolsOf(pre.sections[k])[i].value,
                                  SymbolsOf(file.sections[k])[i].value,
                                  SymbolsOf(pre.sections[k])[i].type \in
                                      {"STT_OBJECT", "STT_FUNC", "STT_SECTION"})
            /\ pre.sections[k].type = "SHT_RELA" =>
                  \A i \in 1..Len(RelasOf(pre.sections[k])) :
                      ShiftedOnce(RelasOf(pre.sections[k])[i].offset,
                                  RelasOf(file.sections[k])[i].offset, TRUE)

\* C3: after fixLoaderVirtualAddresses every loader-visible section has an
\* address >= LOAD_BASE that is a multiple of its addralign and differs from
\* the address of every other loader-visible section.
C3_UniqueAlignedLoaderAddresses ==
    loc.pass = "fixLoaderVirtualAddresses" =>
        \A k \in LoaderVisible(file) :
            /\ Le(LoadBaseAddress, file.sections[k].addr)
            /\ file.sections[k].addr[2] % file.sections[k].addralign = 0
            /\ \A j \in LoaderVisible(file) :
                  j # k => file.sections[j].addr # file.sections[k].addr

\* the address range [newAddr, newAddr + length) of two steps overlap
RangesOverlap(p, q) ==
    /\ Lt(p.newAddr, WideAdd(q.newAddr, U32OfNat(q.length)))
    /\ Lt(q.newAddr, WideAdd(p.newAddr, U32OfNat(p.length)))

\* C4: each section is placed at the cursor aligned up to its addralign and
\* the cursor then advances from that aligned address by the payload length;
\* so each section starts at or after the end of the one processed before
\* it, and no two loader-visible address ranges overlap.
C4_CursorAdvancesFromAlignedAddress ==
    loc.pass = "fixLoaderVirtualAddresses" =>
        /\ \A i \in 1..Len(loc.placed) :
              LET p == loc.placed[i]
              IN  /\ p.newAddr = align_up(p.cursor, file.sections[p.index].addralign)
                  /\ p.cursorAfter = U32Add(p.newAddr, U32OfNat(p.length))
        /\ \A i \in 1..(Len(loc.placed) - 1) :
              Le(WideAdd(loc.placed[i].newAddr, U32OfNat(loc.placed[i].length)),
                 loc.placed[i + 1].newAddr)
        /\ \A i, j \in 1..Len(loc.placed) :
              i # j => ~RangesOverlap(loc.placed[i], loc.placed[j])

----------------------------------------------------------------------------
(* main: the argument check, and what every successful pass leaves behind   *)

PassOrder ==
    << "readElf", "fixBssNoBits", "reorderSectionIndex", "fixRelocations",
       "fixSectionAlign", "fixLoaderVirtualAddresses", "generateFileInfoSection",
       "generateCrcSection", "fixFileHeader", "deflateSections",
       "calculateSectionOffsets", "writeRpl" >>

\* lines 909-912
Usage ==
    /\ pc = "main"
    /\ input.argc < 3
    /\ pc' = "exit"
    /\ exitCode' = -1
    /\ diag' = Append(diag, "Usage: elf2rpl <src elf> <dst rpl>")
    /\ UNCHANGED <<file, pre, ran, loc, outFile, input>>

\* lines 914-918
Start ==
    /\ pc = "main"
    /\ input.argc >= 3
    /\ pc' = "P1"
    /\ UNCHANGED <<file, pre, ran, exitCode, diag, loc, outFile, input>>

----------------------------------------------------------------------------
(* P1  readElf *)

ReadStatuses ==
    { "ok", "unreadable", "bad magic", "bad class", "bad encoding",
      "bad machine", "bad version" }

\* what the failing check of lines 88-119 prints
ReadDiagnostic(status) ==
    CASE status = "unreadable" -> "Could not open for reading"
      [] status = "bad magic" -> "Invalid ELF magic header"
      [] status = "bad class" -> "Unexpected ELF file class"
      [] status = "bad encoding" -> "Unexpected ELF encoding"
      [] status = "bad machine" -> "Unexpected ELF machine type"
      [] status = "bad version" -> "Unexpected ELF version"

\* lines 130-138: the payload is read unless the size is 0 or the type NOBITS
ReadSection(onDisk) ==
    IF onDisk.size = 0 \/ onDisk.type = "SHT_NOBITS"
    THEN [onDisk EXCEPT !.data = NoData]
    ELSE onDisk

ReadRejected ==
    /\ pc = "P1"
    /\ input.status # "ok"
    /\ Fail("readElf", <<ReadDiagnostic(input.status)>>)
    /\ pre' = file
    /\ loc' = [pass |-> "readElf"]
    /\ UNCHANGED <<file, outFile, input>>

ReadDone ==
    /\ pc = "P1"
    /\ input.status = "ok"
    /\ file' = [header |-> [shstrndx |-> input.shstrndx,
                            shnum |-> Len(input.sections),
                            shoff |-> U32(0, HeaderSize)],
                sections |-> [k \in 1..Len(input.sections) |->
                                 ReadSection(input.sections[k])]]
    /\ pre' = file
    /\ loc' = [pass |-> "readElf"]
    /\ pc' = "P2"
    /\ ran' = Append(ran, <<"readElf", TRUE>>)
    /\ input' = AlreadyRead
    /\ UNCHANGED <<exitCode, diag, outFile>>

readElf == ReadRejected \/ ReadDone

----------------------------------------------------------------------------
(* P2  fixBssNoBits *)

\* getSectionByName
HasSection(f, name) == getSectionIndex(f, name) # -1

AllZeroFirstByte(data) == Len(data[2]) = 0 \/ data[2][1] = 0

AllZero(data) == \A i \in 1..Len(data[2]) : data[2][i] = 0

BssRejected ==
    /\ pc = "P2"
    /\ HasSection(file, ".bss")
    /\ ~AllZero(file.sections[getSectionIndex(file, ".bss") + 1].data)
    /\ Fail("fixBssNoBits", <<>>)
    /\ pre' = file
    /\ loc' = [pass |-> "fixBssNoBits"]
    /\ UNCHANGED <<file, outFile, input>>

BssFixed ==
    /\ pc = "P2"
    /\ HasSection(file, ".bss") =>
          AllZero(file.sections[getSectionIndex(file, ".bss") + 1].data)
    /\ file' = IF HasSection(file, ".bss")
               THEN [file EXCEPT !.sections[getSectionIndex(file, ".bss") + 1] =
                        [@ EXCEPT !.type = "SHT_NOBITS", !.offset = Zero32,
                                  !.data = NoData]]
               ELSE file
    /\ pre' = file
    /\ loc' = [pass |-> "fixBssNoBits"]
    /\ pc' = "P3"
    /\ ran' = Append(ran, <<"fixBssNoBits", TRUE>>)
    /\ UNCHANGED <<exitCode, diag, outFile, input>>

fixBssNoBits == BssRejected \/ BssFixed

----------------------------------------------------------------------------
(* P7  generateFileInfoSection *)

\* the end of the section measured from base: addr + header.size - base
EndFrom(section, base) == U32Sub(U32Add(section.addr, U32OfNat(section.size)), base)

Smaller(a, b) == IF Lt(a, b) THEN a ELSE b

Larger(a, b) == IF Lt(a, b) THEN b ELSE a

TempBytesDeclared(section) == section.size

\* lines 352-356
TempBytes(section) ==
    IF section.type = "SHT_NOBITS" THEN section.size ELSE DataSize(section.data)

\* one iteration of the loop of lines 351-380
CountSection(info, section) ==
    CASE Le(CodeBaseAddress, section.addr) /\ Lt(section.addr, DataBaseAddress) ->
            [info EXCEPT !.textSize = Larger(@, EndFrom(section, CodeBaseAddress))]
      [] Le(DataBaseAddress, section.addr) /\ Lt(section.addr, LoadBaseAddress) ->
            [info EXCEPT !.dataSize = Larger(@, EndFrom(section, DataBaseAddress))]
      [] Le(LoadBaseAddress, section.addr) ->
            [info EXCEPT !.loadSize = Larger(@, EndFrom(section, LoadBaseAddress))]
      [] section.addr = Zero32 /\ section.type \notin {"SHT_RPL_CRCS", "SHT_RPL_FILEINFO"} ->
            [info EXCEPT !.tempSize = U32Add(@, U32OfNat(TempBytes(section) + 128))]
      [] OTHER -> info

RECURSIVE CountSections(_, _, _)
CountSections(info, secs, k) ==
    IF k > Len(secs) THEN info
    ELSE CountSections(CountSection(info, secs[k]), secs, k + 1)

\* lines 323-348
EmptyFileInfo ==
    [textSize |-> Zero32, textAlign |-> 32, dataSize |-> Zero32, dataAlign |-> 4096,
     loadSize |-> Zero32, loadAlign |-> 4, tempSize |-> Zero32]

\* lines 350-384
FileInfo(f) ==
    LET info == CountSections(EmptyFileInfo, f.sections, 1)
    IN  [info EXCEPT !.textSize = align_up(info.textSize, info.textAlign),
                     !.dataSize = align_up(info.dataSize, info.dataAlign),
                     !.loadSize = align_up(info.loadSize, info.loadAlign)]

\* lines 386-399
FileInfoSection(f) ==
    Section("", "SHT_RPL_FILEINFO", {}, Zero32, 0, 0, 0, 4, <<"fileinfo", FileInfo(f)>>)

generateFileInfoSection ==
    /\ pc = "P7"
    /\ file' = [file EXCEPT !.sections = Append(@, FileInfoSection(file))]
    /\ pre' = file
    /\ loc' = [pass |-> "generateFileInfoSection"]
    /\ pc' = "P8"
    /\ ran' = Append(ran, <<"generateFileInfoSection", TRUE>>)
    /\ UNCHANGED <<exitCode, diag, outFile, input>>

----------------------------------------------------------------------------
(* P8  generateCrcSection.  zlib's crc32 is kept symbolic: Crc32(d) stands   *)
(* for the checksum of the bytes d, so two entries agree only when they are  *)
(* checksums of the same bytes.                                              *)

Crc32(data) == <<"crc32", data>>

\* the 32-bit value 0, which is also what crc32 gives for no bytes
ZeroCrc == Crc32(NoData)

\* lines 413-418
SectionCrc(section) ==
    IF DataSize(section.data) # 0 THEN Crc32(section.data) ELSE ZeroCrc

InsertFirst(seq, x) == <<x>> \o seq

\* vector insert at end() - 1
InsertBeforeLast(seq, x) ==
    SubSeq(seq, 1, Len(seq) - 1) \o <<x>> \o SubSeq(seq, Len(seq), Len(seq))

CrcsAppended(secs) ==
    [k \in 1..Len(secs) |-> SectionCrc(secs[k])] \o <<ZeroCrc>>

CrcsWithoutOwnSlot(secs) == [k \in 1..Len(secs) |-> SectionCrc(secs[k])]

\* lines 411-424
Crcs(secs) == InsertBeforeLast([k \in 1..Len(secs) |-> SectionCrc(secs[k])], ZeroCrc)

\* lines 426-439
CrcSection(secs) ==
    [Section("", "SHT_RPL_CRCS", {}, Zero32, 0, 0, 0, 4, <<"crcs", Crcs(secs)>>)
        EXCEPT !.entsize = 4]

generateCrcSection ==
    /\ pc = "P8"
    /\ file' = [file EXCEPT !.sections = InsertBeforeLast(@, CrcSection(@))]
    /\ pre' = file
    /\ loc' = [pass |-> "generateCrcSection"]
    /\ pc' = "P9"
    /\ ran' = Append(ran, <<"generateCrcSection", TRUE>>)
    /\ UNCHANGED <<exitCode, diag, outFile, input>>

----------------------------------------------------------------------------
(* P9  fixFileHeader *)

\* static_cast<uint16_t>
U16(n) == n % Half

fixFileHeader ==
    /\ pc = "P9"
    /\ file' = [file EXCEPT !.header =
                   [shoff |-> align_up(U32OfNat(HeaderSize), 64),
                    shnum |-> U16(Len(file.sections)),
                    shstrndx |-> U16(getSectionIndex(file, ".shstrtab"))]]
    /\ pre' = file
    /\ loc' = [pass |-> "fixFileHeader"]
    /\ pc' = "P10"
    /\ ran' = Append(ran, <<"fixFileHeader", TRUE>>)
    /\ UNCHANGED <<exitCode, diag, outFile, input>>

----------------------------------------------------------------------------
(* P10  deflateSections.  What zlib makes of a payload is kept symbolic: the *)
(* new payload records the 4-byte prefix, the length of the stream and the   *)
(* bytes the stream inflates to.  The stream is either shorter than its      *)
(* input or, for bytes that do not compress, a stored block longer than it.  *)

StreamKinds == {"packed", "stored"}

StreamLength(data, kind) ==
    IF kind = "stored" THEN DataSize(data) + 11 ELSE 8 + DataSize(data) \div 8

\* lines 729-733: the sections the loop skips
SkippedByDeflate(section) ==
    \/ DataSize(section.data) < DeflateMinSectionSize
    \/ section.type = "SHT_RPL_CRCS"
    \/ section.type = "SHT_RPL_FILEINFO"

\* lines 735-769
Deflated(data, kind) == <<"deflated", DataSize(data), StreamLength(data, kind), data>>

DeflatedSection(section, kind) ==
    IF SkippedByDeflate(section) THEN section
    ELSE [section EXCEPT !.data = Deflated(@, kind),
                         !.flags = @ \cup {"SHF_DEFLATED"}]

\* the loop up to, not including, the 1-based position stop
DeflatedBefore(secs, stop, kind) ==
    [k \in 1..Len(secs) |-> IF k < stop THEN DeflatedSection(secs[k], kind) ELSE secs[k]]

DeflateDone ==
    /\ pc = "P10"
    /\ \E kind \in StreamKinds :
          file' = [file EXCEPT !.sections = DeflatedBefore(@, Len(@) + 1, kind)]
    /\ pre' = file
    /\ loc' = [pass |-> "deflateSections"]
    /\ pc' = "P11"
    /\ ran' = Append(ran, <<"deflateSections", TRUE>>)
    /\ UNCHANGED <<exitCode, diag, outFile, input>>

\* lines 752-756: deflate reports Z_STREAM_ERROR for the section at stop
DeflateStreamError ==
    /\ pc = "P10"
    /\ \E stop \in 1..Len(file.sections), kind \in StreamKinds :
          /\ ~SkippedByDeflate(file.sections[stop])
          /\ file' = [file EXCEPT !.sections = DeflatedBefore(@, stop, kind)]
    /\ Fail("deflateSections", <<>>)
    /\ pre' = file
    /\ loc' = [pass |-> "deflateSections"]
    /\ UNCHANGED <<outFile, input>>

deflateSections == DeflateDone \/ DeflateStreamError

----------------------------------------------------------------------------
(* P11  calculateSectionOffsets *)

\* getSectionByType: the first section of the type, as a sequence of 0 or 1
FirstOfType(secs, type) ==
    LET found == SelectSeq([k \in 1..Len(secs) |-> k], LAMBDA k : secs[k].type = type)
    IN  SubSeq(found, 1, IF Len(found) = 0 THEN 0 ELSE 1)

\* the condition of the g-th loop of lines 809-864
InOffsetGroup(s, g) ==
    CASE g = 1 -> s.type = "SHT_PROGBITS" /\ "SHF_EXECINSTR" \notin s.flags
      [] g = 2 -> s.type = "SHT_RPL_EXPORTS"
      [] g = 3 -> s.type = "SHT_RPL_IMPORTS"
      [] g = 4 -> s.type = "SHT_SYMTAB" \/ s.type = "SHT_STRTAB"
      [] g = 5 -> s.type = "SHT_PROGBITS" /\ "SHF_EXECINSTR" \in s.flags
      [] g = 6 -> s.type = "SHT_REL" \/ s.type = "SHT_RELA"

OffsetGroup(secs, g) ==
    SelectSeq([k \in 1..Len(secs) |-> k], LAMBDA k : InOffsetGroup(secs[k], g))

OffsetOrderCodeFirst(secs) ==
    FirstOfType(secs, "SHT_RPL_CRCS") \o FirstOfType(secs, "SHT_RPL_FILEINFO")
        \o OffsetGroup(secs, 5) \o OffsetGroup(secs, 1) \o OffsetGroup(secs, 2)
        \o OffsetGroup(secs, 3) \o OffsetGroup(secs, 4) \o OffsetGroup(secs, 6)

\* the 1-based positions in the order the pass assigns offsets
OffsetOrder(secs) ==
    FirstOfType(secs, "SHT_RPL_CRCS") \o FirstOfType(secs, "SHT_RPL_FILEINFO")
        \o OffsetGroup(secs, 1) \o OffsetGroup(secs, 2) \o OffsetGroup(secs, 3)
        \o OffsetGroup(secs, 4) \o OffsetGroup(secs, 5) \o OffsetGroup(secs, 6)

\* lines 793-794
FirstOffset(f) ==
    U32Add(f.header.shoff,
           align_up(U32OfNat(Len(f.sections) * SectionHeaderSize), 64))

RECURSIVE AssignOffsets(_, _, _, _)
AssignOffsets(secs, order, i, offset) ==
    IF i > Len(order) THEN secs
    ELSE LET k == order[i]
             size == DataSize(secs[k].data)
         IN  AssignOffsets([secs EXCEPT ![k] = [@ EXCEPT !.offset = offset, !.size = size]],
                           order, i + 1, U32Add(offset, U32OfNat(size)))

calculateSectionOffsets ==
    /\ pc = "P11"
    /\ file' = [file EXCEPT !.sections =
                   AssignOffsets(@, OffsetOrder(@), 1, FirstOffset(file))]
    /\ pre' = file
    /\ loc' = [pass |-> "calculateSectionOffsets"]
    /\ pc' = "P12"
    /\ ran' = Append(ran, <<"calculateSectionOffsets", TRUE>>)
    /\ UNCHANGED <<exitCode, diag, outFile, input>>

----------------------------------------------------------------------------
(* P12  writeRpl, and main's return 0 *)

\* lines 880-883: the output path cannot be opened
WriteRejected ==
    /\ pc = "P12"
    /\ Fail("writeRpl", <<"Could not open for writing">>)
    /\ outFile' = [outFile EXCEPT !.state = "not opened"]
    /\ pre' = file
    /\ loc' = [pass |-> "writeRpl"]
    /\ UNCHANGED <<file, input>>

\* lines 885-902: the header, the section headers at shoff, then each
\* non-empty payload at its offset
WriteDone ==
    /\ pc = "P12"
    /\ outFile' = [state |-> "written", header |-> file.header,
                   sections |-> file.sections]
    /\ pre' = file
    /\ loc' = [pass |-> "writeRpl"]
    /\ pc' = "exit"
    /\ exitCode' = 0
    /\ ran' = Append(ran, <<"writeRpl", TRUE>>)
    /\ UNCHANGED <<file, diag, input>>

writeRpl == WriteRejected \/ WriteDone

----------------------------------------------------------------------------
(* The whole program: command lines and input files for main.  The files    *)
(* are in the order a linker emits them, relocations last, so that          *)
(* reorderSectionIndex has sections to move.                                *)

TextLengths == {4, DeflateMinSectionSize}

\* .bss as the linker script leaves it: absent, PROGBITS holding zeros,
\* PROGBITS holding a non-zero byte, or NOBITS
BssChoices == {"none", "zero", "nonzero", "nobits"}

BssOffset == U32(0, 256)

BssSection(bss) ==
    LET at(type, bytes) ==
            [Section(".bss", type, {"SHF_ALLOC", "SHF_WRITE"},
                     DataBaseAddress, 4, 0, 0, 4, Raw(bytes))
                EXCEPT !.offset = BssOffset]
    IN  CASE bss = "none" -> <<>>
          [] bss = "zero" -> <<at("SHT_PROGBITS", <<0, 0, 0, 0>>)>>
          [] bss = "nonzero" -> <<at("SHT_PROGBITS", <<0, 1, 0, 0>>)>>
          [] bss = "nobits" -> <<at("SHT_NOBITS", <<7, 7, 7, 7>>)>>

\* the one record of .rela.text: kept, lowered to two records, or unsupported
ImageRelas ==
    { Rela(U32(512, 0), 1, "R_PPC_ADDR32", Zero32),
      Rela(U32(512, 0), 1, "R_PPC_REL32", Zero32),
      Rela(U32(512, 0), 1, "R_PPC_ADDR24", Zero32) }

\* "linker": section 0 is the null section; "extra null": a second null
\* section follows the tables; "text first": .text and the null section
\* have changed places; "minimal": the null section and .shstrtab alone;
\* "low text": .text linked below the code region; "empty strtab": a
\* .strtab of no bytes; "flagged": a .strtab that carries SHF_DEFLATED in
\* the input; "names in strtab": no .shstrtab, the section names are in
\* .strtab
Layouts ==
    { "linker", "extra null", "text first", "minimal", "low text",
      "empty strtab", "flagged", "names in strtab" }

LowTextAddress == U32(0, 4096)       \* 0x00001000

ImageSections(textLen, bss, rel, layout, imports) ==
    LET null == Section("", "SHT_NULL", {}, Zero32, 0, 0, 0, 0, NoData)
        text == Section(".text", "SHT_PROGBITS", {"SHF_ALLOC", "SHF_EXECINSTR"},
                        IF layout = "low text" THEN LowTextAddress ELSE CodeBaseAddress,
                        textLen, 0, 0, 4, Bytes(textLen))
        strLen == IF layout = "empty strtab" THEN 0 ELSE 5
        strtab == Section(".strtab", "SHT_STRTAB",
                          IF layout = "flagged" THEN {"SHF_DEFLATED"} ELSE {},
                          Zero32, strLen, 0, 0, 1, Bytes(strLen))
        shstrtab == Section(".shstrtab", "SHT_STRTAB", {}, Zero32, 7, 0, 0, 1, Bytes(7))
    IN  IF layout = "minimal" THEN <<null, shstrtab>>
        ELSE
        (IF layout = "text first" THEN <<text, null>> ELSE <<null, text>>)
        \o BssSection(bss)
        \o [i \in 1..imports |->
              Section(ImportName(i), "SHT_RPL_IMPORTS", {"SHF_ALLOC"},
                      U32(49152, 16 * (i - 1)), 9, 0, 0, 1, Bytes(9))]
        \o << Section(".symtab", "SHT_SYMTAB", {}, Zero32, 2 * SymbolSize, 0, 0, 4,
                      SymData(<<Symbol(Zero32, "STT_NOTYPE", 0),
                                Symbol(CodeBaseAddress, "STT_FUNC", 1)>>)),
              strtab >>
        \o (IF layout = "names in strtab" THEN <<>> ELSE <<shstrtab>>)
        \o << Section(".rela.text", "SHT_RELA", {}, Zero32, RelaSize, 0, 1, 4,
                      RelaData(<<rel>>)) >>
        \o (IF layout = "extra null" THEN <<null>> ELSE <<>>)

\* the file with its link fields and the header's shstrndx
Image(textLen, bss, rel, layout, imports) ==
    LET f == Linked(ImageSections(textLen, bss, rel, layout, imports))
    IN  IF layout = "names in strtab"
        THEN [f EXCEPT !.header.shstrndx = getSectionIndex(f, ".strtab")]
        ELSE f

Images ==
    { Image(textLen, bss, rel, layout, imports) :
        textLen \in TextLengths, bss \in BssChoices, rel \in ImageRelas,
        layout \in Layouts, imports \in 0..MaxImports }

\* argc and what readElf finds at the input path; the checks of readElf and
\* of main are tried on every image
Commands ==
    { [argc |-> 2, status |-> "ok"] } \cup { [argc |-> 3, status |-> st] : st \in ReadStatuses }

\* ElfFile elf;
EmptyElf == [header |-> [shstrndx |-> 0, shnum |-> 0, shoff |-> Zero32], sections |-> <<>>]

Init ==
    /\ pc = "main"
    /\ \E c \in Commands, image \in Images :
          input = [argc |-> c.argc, status |-> c.status,
                   sections |-> image.sections, shstrndx |-> image.header.shstrndx]
    /\ file = EmptyElf
    /\ pre = EmptyElf
    /\ ran = <<>>
    /\ exitCode = "none"
    /\ diag = <<>>
    /\ loc = [pass |-> "main"]
    /\ outFile = Untouched

Next ==
    \/ Usage
    \/ Start
    \/ readElf
    \/ fixBssNoBits
    \/ reorderSectionIndex
    \/ fixRelocations
    \/ fixSectionAlign
    \/ fixLoaderVirtualAddresses
    \/ generateFileInfoSection
    \/ generateCrcSection
    \/ fixFileHeader
    \/ deflateSections
    \/ calculateSectionOffsets
    \/ writeRpl

Spec == Init /\ [][Next]_vars

----------------------------------------------------------------------------
(* Properties of main *)

AllSucceeded == \A i \in 1..Len(ran) : ran[i][2]

FailedIn(pass) == Len(ran) > 0 /\ ran[Len(ran)] = <<pass, FALSE>>

\* C9: the passes run in the order P1..P12, each at most once; once a pass
\* has returned failure no later pass runs, the output file is neither
\* opened nor written and the program exits with a non-zero code; the
\* program exits with 0 only after all twelve passes have succeeded.
C9_PassesInOrderAbortOnFailure ==
    /\ Len(ran) <= Len(PassOrder)
    /\ \A i \in 1..Len(ran) : ran[i][1] = PassOrder[i]
    /\ \A i \in 1..(Len(ran) - 1) : ran[i][2]
    /\ ~AllSucceeded =>
          /\ pc = "exit"
          /\ exitCode = -1
          /\ outFile.state \in {"untouched", "not opened"}
          /\ outFile.state = "not opened" => FailedIn("writeRpl")
    /\ outFile.state = "written" => Len(ran) = Len(PassOrder) /\ AllSucceeded
    /\ (pc = "exit" /\ exitCode = 0) =>
          /\ Len(ran) = Len(PassOrder)
          /\ AllSucceeded
          /\ outFile.state = "written"

\* a run that fixRelocations aborted: three passes succeeded before it, none
\* ran after it, and the output path was left alone
C9_Witness ==
    /\ pc = "exit"
    /\ exitCode = -1
    /\ Len(ran) = 4
    /\ FailedIn("fixRelocations")
    /\ outFile.state = "untouched"

----------------------------------------------------------------------------
(* Properties of the written file *)

\* the bytes a payload stands for once a DEFLATED payload is inflated
Inflated(data) == IF data[1] = "deflated" THEN data[4] ELSE data

CrcsPositions(secs) == {k \in 1..Len(secs) : secs[k].type = "SHT_RPL_CRCS"}

\* the table has one entry per section of the written file, 4 bytes each,
\* and the entry of the table's own section is 0
CrcTableShape(written) ==
    /\ Cardinality(CrcsPositions(written.sections)) = 1
    /\ \A c \in CrcsPositions(written.sections) :
          /\ c = Len(written.sections) - 1
          /\ written.sections[Len(written.sections)].type = "SHT_RPL_FILEINFO"
          /\ written.sections[c].data[1] = "crcs"
          /\ Len(written.sections[c].data[2]) = written.header.shnum
          /\ DataSize(written.sections[c].data) = 4 * written.header.shnum
          /\ written.header.shnum = Len(written.sections)
          /\ written.sections[c].data[2][c] = ZeroCrc

\* the entry of the section at position k, were it the checksum of data
EntryIs(written, k, data) ==
    \A c \in CrcsPositions(written.sections) :
        written.sections[c].data[2][k] =
            IF DataSize(data) = 0 THEN ZeroCrc ELSE Crc32(data)

\* C10 as stated: every entry but the table's own is the CRC-32 of the
\* payload the section has in the output.
C10_AsStated ==
    outFile.state = "written" =>
        /\ CrcTableShape(outFile)
        /\ \A k \in 1..Len(outFile.sections) :
              k \notin CrcsPositions(outFile.sections) =>
                 EntryIs(outFile, k, outFile.sections[k].data)

\* C10: in the output the RPL_CRCS payload holds shnum entries of 4 bytes,
\* entry k belongs to the section at index k, the table's own entry is 0,
\* and every other entry, the one of RPL_FILEINFO at the last index
\* included, is the CRC-32 of the section's payload before compression (0
\* when that payload is empty): of the payload itself for a section that is
\* not DEFLATED, of the bytes the stream inflates to for one that is.
C10_CrcsOfUncompressedPayloads ==
    outFile.state = "written" =>
        /\ CrcTableShape(outFile)
        /\ \A k \in 1..Len(outFile.sections) :
              k \notin CrcsPositions(outFile.sections) =>
                 EntryIs(outFile, k, Inflated(outFile.sections[k].data))

\* a written file with a DEFLATED section, a section without payload and a
\* non-zero entry for RPL_FILEINFO
C10_Witness ==
    /\ outFile.state = "written"
    /\ \E k \in 1..Len(outFile.sections) : "SHF_DEFLATED" \in outFile.sections[k].flags
    /\ \E k \in 1..Len(outFile.sections) : DataSize(outFile.sections[k].data) = 0
    /\ \A c \in CrcsPositions(outFile.sections) :
          outFile.sections[c].data[2][Len(outFile.sections)] # ZeroCrc

----------------------------------------------------------------------------
(* Properties of generateFileInfoSection *)

\* the record in the section P7 appended
WrittenFileInfo(f) == f.sections[Len(f.sections)].data[2]

InTextRegion(s) == Le(CodeBaseAddress, s.addr) /\ Lt(s.addr, DataBaseAddress)
InDataRegion(s) == Le(DataBaseAddress, s.addr) /\ Lt(s.addr, LoadBaseAddress)
InLoadRegion(s) == Le(LoadBaseAddress, s.addr)
CountsAsTemp(s) ==
    s.addr = Zero32 /\ s.type \notin {"SHT_RPL_CRCS", "SHT_RPL_FILEINFO"}

\* how many of the four sizes the section contributes to
Contributions(s) ==
    (IF InTextRegion(s) THEN 1 ELSE 0) + (IF InDataRegion(s) THEN 1 ELSE 0)
        + (IF InLoadRegion(s) THEN 1 ELSE 0) + (IF CountsAsTemp(s) THEN 1 ELSE 0)

\* the largest addr + size - base over the sections at the positions K, or 0
LargestEnd(secs, K, base) ==
    LET ends == { U32Sub(U32Add(secs[k].addr, U32OfNat(secs[k].size)), base) : k \in K }
    IN  IF ends = {} THEN Zero32
        ELSE CHOOSE m \in ends : \A x \in ends : Le(x, m)

\* the least multiple of alignment that is not below value, modulo 2^32
RoundedUp(value, alignment) ==
    U32Add(value, U32OfNat((alignment - (value[2] % alignment)) % alignment))

PayloadOrDeclared(s) == IF s.type = "SHT_NOBITS" THEN s.size ELSE DataSize(s.data)

RECURSIVE TempSum(_, _)
TempSum(secs, k) ==
    IF k = 0 THEN 0
    ELSE TempSum(secs, k - 1)
            + (IF CountsAsTemp(secs[k]) THEN PayloadOrDeclared(secs[k]) + 128 ELSE 0)

\* the four sizes of the record are those of the sections secs
SizesComputedFrom(info, secs) ==
    LET all == 1..Len(secs)
    IN  /\ info.textSize =
              RoundedUp(LargestEnd(secs, {k \in all : InTextRegion(secs[k])},
                                   CodeBaseAddress), 32)
        /\ info.dataSize =
              RoundedUp(LargestEnd(secs, {k \in all : InDataRegion(secs[k])},
                                   DataBaseAddress), 4096)
        /\ info.loadSize =
              RoundedUp(LargestEnd(secs, {k \in all : InLoadRegion(secs[k])},
                                   LoadBaseAddress), 4)
        /\ info.textSize[2] % 32 = 0
        /\ info.dataSize[2] % 4096 = 0
        /\ info.loadSize[2] % 4 = 0
        /\ info.tempSize = U32OfNat(TempSum(secs, Len(secs)))

\* C11 as stated: the sizes are computed as described and every section
\* contributes to exactly one of the four.
C11_AsStated ==
    loc.pass = "generateFileInfoSection" =>
        /\ SizesComputedFrom(WrittenFileInfo(file), pre.sections)
        /\ \A k \in 1..Len(pre.sections) : Contributions(pre.sections[k]) = 1

\* C11: generateFileInfoSection computes textSize, dataSize and loadSize as
\* the maximum of addr + declared size - base over the sections whose addr
\* is in [CODE_BASE, DATA_BASE), [DATA_BASE, LOAD_BASE) and [LOAD_BASE, 2^32)
\* (0 when there is none), rounded up to a multiple of 32, 4096 and 4, and
\* tempSize as the sum of s + 128 over the sections with addr 0 whose type
\* is neither RPL_CRCS nor RPL_FILEINFO, s being the payload length, or the
\* declared size for NOBITS; each section contributes to at most one of the
\* four, and a section whose addr is above 0 and below CODE_BASE to none.
C11_FileInfoSizes ==
    loc.pass = "generateFileInfoSection" =>
        /\ SizesComputedFrom(WrittenFileInfo(file), pre.sections)
        /\ \A k \in 1..Len(pre.sections) :
              /\ Contributions(pre.sections[k]) <= 1
              /\ (Lt(Zero32, pre.sections[k].addr)
                    /\ Lt(pre.sections[k].addr, CodeBaseAddress))
                 => Contributions(pre.sections[k]) = 0

\* P7 has run on a file with a section below the code region, a section in
\* the data region and a section at address 0 whose payload has outgrown its
\* declared size
C11_Witness ==
    /\ loc.pass = "generateFileInfoSection"
    /\ \E k \in 1..Len(pre.sections) : Contributions(pre.sections[k]) = 0
    /\ \E k \in 1..Len(pre.sections) : InDataRegion(pre.sections[k])
    /\ \E k \in 1..Len(pre.sections) :
          /\ CountsAsTemp(pre.sections[k])
          /\ DataSize(pre.sections[k].data) # pre.sections[k].size

----------------------------------------------------------------------------
(* The minimal input: one NULL section and .shstrtab *)

IsMinimal(secs) ==
    /\ Len(secs) = 2
    /\ secs[1].type = "SHT_NULL"
    /\ secs[2].name = ".shstrtab"

\* C12 as stated: for the minimal input every size field of the FILEINFO
\* record is 0.
C12_AsStated ==
    (loc.pass = "generateFileInfoSection" /\ IsMinimal(pre.sections)) =>
        /\ WrittenFileInfo(file).textSize = Zero32
        /\ WrittenFileInfo(file).dataSize = Zero32
        /\ WrittenFileInfo(file).loadSize = Zero32
        /\ WrittenFileInfo(file).tempSize = Zero32

\* C12: for the minimal input, running the pipeline through P7 yields a
\* FILEINFO record with textSize 0 and dataSize 0, tempSize 128 (the NULL
\* section, at address 0 with no payload) and loadSize the length of
\* .shstrtab rounded up to 4 (P6 has moved .shstrtab to LOAD_BASE).
C12_MinimalFileInfo ==
    (loc.pass = "generateFileInfoSection" /\ IsMinimal(pre.sections)) =>
        /\ pre.sections[2].addr = LoadBaseAddress
        /\ WrittenFileInfo(file).textSize = Zero32
        /\ WrittenFileInfo(file).dataSize = Zero32
        /\ WrittenFileInfo(file).loadSize =
              RoundedUp(U32OfNat(DataSize(pre.sections[2].data)), 4)
        /\ WrittenFileInfo(file).loadSize # Zero32
        /\ WrittenFileInfo(file).tempSize = U32OfNat(128)

C12_Witness ==
    /\ loc.pass = "generateFileInfoSection"
    /\ IsMinimal(pre.sections)
    /\ Len(file.sections) = 3
    /\ ran[Len(ran)] = <<"generateFileInfoSection", TRUE>>

\* C13 as stated: for the minimal input the RPL_CRCS payload is 12 bytes,
\* 3 entries.
C13_AsStated ==
    (loc.pass = "generateCrcSection" /\ IsMinimal(SubSeq(pre.sections, 1, 2))
        /\ Len(pre.sections) = 3) =>
        /\ Len(file.sections[3].data[2]) = 3
        /\ DataSize(file.sections[3].data) = 12

\* C13: for the minimal input the RPL_CRCS section produced by P8 has a
\* payload of exactly 16 bytes, i.e. 4 CRC entries: one for each of NULL,
\* .shstrtab and RPL_FILEINFO and the 0 entry of RPL_CRCS itself, as many
\* as the file then has sections.
C13_MinimalCrcs ==
    (loc.pass = "generateCrcSection" /\ IsMinimal(SubSeq(pre.sections, 1, 2))
        /\ Len(pre.sections) = 3) =>
        /\ file.sections[3].type = "SHT_RPL_CRCS"
        /\ Len(file.sections) = 4
        /\ Len(file.sections[3].data[2]) = 4
        /\ DataSize(file.sections[3].data) = 16
        /\ file.sections[3].data[2][1] = ZeroCrc
        /\ file.sections[3].data[2][2] # ZeroCrc
        /\ file.sections[3].data[2][3] = ZeroCrc
        /\ file.sections[3].data[2][4] # ZeroCrc

C13_Witness ==
    /\ loc.pass = "generateCrcSection"
    /\ Len(pre.sections) = 3
    /\ IsMinimal(SubSeq(pre.sections, 1, 2))
    /\ Len(file.sections) = 4
    /\ ran[Len(ran)] = <<"generateCrcSection", TRUE>>

----------------------------------------------------------------------------
(* Properties of calculateSectionOffsets *)

\* the place of a section in the on-disk traversal, 0 when it is not visited
TraversalRank(s) ==
    CASE s.type = "SHT_RPL_CRCS" -> 1
      [] s.type = "SHT_RPL_FILEINFO" -> 2
      [] s.type = "SHT_PROGBITS" /\ "SHF_EXECINSTR" \notin s.flags -> 3
      [] s.type = "SHT_RPL_EXPORTS" -> 4
      [] s.type = "SHT_RPL_IMPORTS" -> 5
      [] s.type \in {"SHT_SYMTAB", "SHT_STRTAB"} -> 6
      [] s.type = "SHT_PROGBITS" /\ "SHF_EXECINSTR" \in s.flags -> 7
      [] s.type \in {"SHT_REL", "SHT_RELA"} -> 8
      [] OTHER -> 0

Visited(secs) == {k \in 1..Len(secs) : TraversalRank(secs[k]) # 0}

\* the section at j is visited before the section at k
VisitedBefore(secs, j, k) ==
    \/ TraversalRank(secs[j]) < TraversalRank(secs[k])
    \/ TraversalRank(secs[j]) = TraversalRank(secs[k]) /\ j < k

FileEnd(s) == WideAdd(s.offset, U32OfNat(s.size))

FileRangesOverlap(a, b) ==
    /\ Lt(a.offset, FileEnd(b))
    /\ Lt(b.offset, FileEnd(a))

\* the payload bytes of the sections visited before the one at k, among the
\* first j sections
RECURSIVE BytesBefore(_, _, _)
BytesBefore(secs, k, j) ==
    IF j = 0 THEN 0
    ELSE BytesBefore(secs, k, j - 1)
            + (IF j \in Visited(secs) /\ VisitedBefore(secs, j, k)
               THEN DataSize(secs[j].data) ELSE 0)

SizesArePayloadLengths(secs) ==
    \A k \in Visited(secs) : secs[k].size = DataSize(secs[k].data)

NoVisitedRangesOverlap(secs) ==
    \A j, k \in Visited(secs) : j # k => ~FileRangesOverlap(secs[j], secs[k])

\* C14 as stated: in the traversal order the offsets are strictly
\* increasing, sizes are payload lengths and no two file ranges overlap.
C14_AsStated ==
    loc.pass = "calculateSectionOffsets" =>
        /\ \A j, k \in Visited(file.sections) :
              VisitedBefore(file.sections, j, k) =>
                 Lt(file.sections[j].offset, file.sections[k].offset)
        /\ SizesArePayloadLengths(file.sections)
        /\ NoVisitedRangesOverlap(file.sections)

\* C14: after calculateSectionOffsets, walking the sections in the on-disk
\* traversal order (RPL_CRCS, RPL_FILEINFO, non-executable PROGBITS,
\* RPL_EXPORTS, RPL_IMPORTS, SYMTAB/STRTAB, executable PROGBITS, REL/RELA),
\* each visited section has size equal to its payload length and starts
\* where the one visited before it ends, the first at shoff plus the section
\* header table rounded up to 64; so the offsets never decrease, they
\* increase strictly after every section with a non-empty payload (a section
\* with an empty payload shares its offset with the next one), and no two
\* visited sections' file ranges [offset, offset+size) overlap.
C14_OffsetsInTraversalOrder ==
    loc.pass = "calculateSectionOffsets" =>
        /\ SizesArePayloadLengths(file.sections)
        /\ \A k \in Visited(file.sections) :
              file.sections[k].offset =
                 U32Add(U32Add(file.header.shoff,
                               RoundedUp(U32OfNat(Len(file.sections) * SectionHeaderSize), 64)),
                        U32OfNat(BytesBefore(file.sections, k, Len(file.sections))))
        /\ \A j, k \in Visited(file.sections) :
              VisitedBefore(file.sections, j, k) =>
                 /\ Le(FileEnd(file.sections[j]), file.sections[k].offset)
                 /\ DataSize(file.sections[j].data) # 0 =>
                       Lt(file.sections[j].offset, file.sections[k].offset)
        /\ NoVisitedRangesOverlap(file.sections)

\* offsets were assigned to a file in which a visited section without
\* payload is followed by one with payload, and .text comes after the tables
C14_Witness ==
    /\ loc.pass = "calculateSectionOffsets"
    /\ \E j, k \in Visited(file.sections) :
          /\ VisitedBefore(file.sections, j, k)
          /\ DataSize(file.sections[j].data) = 0
          /\ DataSize(file.sections[k].data) # 0
          /\ file.sections[j].offset = file.sections[k].offset
    /\ \E j, k \in Visited(file.sections) :
          /\ j < k
          /\ VisitedBefore(file.sections, k, j)

----------------------------------------------------------------------------
(* Properties of deflateSections *)

\* the payload is the 4-byte length of original and then original compressed
IsCompressedFormOf(data, original) ==
    /\ data[1] = "deflated"
    /\ data[2] = DataSize(original)
    /\ data[4] = original

LeftAloneByDeflate(before) ==
    \/ DataSize(before.data) < DeflateMinSectionSize
    \/ before.type \in {"SHT_RPL_CRCS", "SHT_RPL_FILEINFO"}

\* C15: after deflateSections every section that carries the DEFLATED flag
\* has a payload made of a 4-byte prefix equal to the length of its payload
\* before the pass, followed by the compressed form of exactly that payload;
\* every section whose payload before the pass is shorter than 24 bytes or
\* whose type is RPL_CRCS or RPL_FILEINFO keeps its payload and flags.
C15_DeflatedSectionsHavePrefix ==
    loc.pass = "deflateSections" =>
        \A k \in 1..Len(file.sections) :
            /\ "SHF_DEFLATED" \in file.sections[k].flags =>
                  IsCompressedFormOf(file.sections[k].data, pre.sections[k].data)
            /\ LeftAloneByDeflate(pre.sections[k]) =>
                  /\ file.sections[k].data = pre.sections[k].data
                  /\ file.sections[k].flags = pre.sections[k].flags

----------------------------------------------------------------------------
(* Properties of fixBssNoBits *)

NamedBss(f) == {k \in 1..Len(f.sections) : f.sections[k].name = ".bss"}

\* the section getSectionByName finds: the first one named .bss
FirstBss(f) == CHOOSE k \in NamedBss(f) : \A j \in NamedBss(f) : k <= j

HasNonZeroByte(section) ==
    \E i \in 1..DataSize(section.data) : section.data[2][i] # 0

\* what one step of fixBssNoBits does to the file
BssStep ==
    IF NamedBss(file) = {}
    THEN file' = file /\ pc' = "P3"
    ELSE IF HasNonZeroByte(file.sections[FirstBss(file)])
    THEN file' = file /\ pc' = "exit" /\ exitCode' = -1
    ELSE /\ pc' = "P3"
         /\ file'.header = file.header
         /\ Len(file'.sections) = Len(file.sections)
         /\ \A k \in 1..Len(file.sections) :
               k # FirstBss(file) => file'.sections[k] = file.sections[k]
         /\ file'.sections[FirstBss(file)] =
               [file.sections[FirstBss(file)] EXCEPT
                   !.type = "SHT_NOBITS", !.offset = Zero32, !.data = NoData]
         /\ file'.sections[FirstBss(file)].size = file.sections[FirstBss(file)].size

\* a later pass keeps .bss a NOBITS section of the same declared size
BssKept ==
    NamedBss(file) # {} =>
        /\ Cardinality(NamedBss(file')) = Cardinality(NamedBss(file))
        /\ file'.sections[FirstBss(file')].type = "SHT_NOBITS"
        /\ file'.sections[FirstBss(file')].size = file.sections[FirstBss(file)].size
        /\ DataSize(file'.sections[FirstBss(file')].data) = 0

\* C16: fixBssNoBits succeeds and changes nothing when no section is named
\* .bss; fails and leaves the file unchanged when .bss has a non-zero
\* payload byte; otherwise gives .bss type NOBITS, offset 0 and an empty
\* payload and changes nothing else, the declared size included; every
\* later pass keeps the section NOBITS with that declared size, and so does
\* the file that is written.
C16_BssNormalised ==
    [][ /\ pc = "P2" => BssStep
        /\ pc \in {"P3", "P4", "P5", "P6", "P7", "P8", "P9", "P10", "P11", "P12"} => BssKept
        /\ outFile'.state = "written" =>
              /\ outFile'.sections = file'.sections
              /\ \A k \in NamedBss(file') :
                    /\ outFile'.sections[k].type = "SHT_NOBITS"
                    /\ DataSize(outFile'.sections[k].data) = 0 ]_vars

\* a file has been written whose .bss, which the input had at a file offset
\* other than 0, is NOBITS at offset 0 with its declared size of 4
C16_Witness ==
    /\ outFile.state = "written"
    /\ NamedBss(file) # {}
    /\ outFile.sections[FirstBss(file)].type = "SHT_NOBITS"
    /\ outFile.sections[FirstBss(file)].size = 4
    /\ outFile.sections[FirstBss(file)].offset = Zero32

----------------------------------------------------------------------------
(* Properties of the section list after reorderSectionIndex *)

AfterReordering == {"P4", "P5", "P6", "P7", "P8", "P9", "P10", "P11", "P12"}

Synthesised(s) == s.type \in {"SHT_RPL_CRCS", "SHT_RPL_FILEINFO"}

\* the positions of the sections that came from the input
FromInput(f) == {k \in 1..Len(f.sections) : ~Synthesised(f.sections[k])}

\* the shndx of every symbol of a symbol table, compressed or not
ShndxOf(s) ==
    LET d == Inflated(s.data)
    IN  IF d[1] = "sym" THEN [i \in 1..Len(d[2]) |-> d[2][i].shndx] ELSE <<>>

\* one step neither removes nor moves a section that came from the input,
\* nor changes a section index stored in it
SectionsStay ==
    /\ Len(file'.sections) = Len(file.sections) + (IF pc \in {"P7", "P8"} THEN 1 ELSE 0)
    /\ FromInput(file') = FromInput(file)
    /\ \A k \in FromInput(file) :
          /\ file'.sections[k].name = file.sections[k].name
          /\ file'.sections[k].type = file.sections[k].type
          /\ file'.sections[k].link = file.sections[k].link
          /\ file'.sections[k].info = file.sections[k].info
          /\ ShndxOf(file'.sections[k]) = ShndxOf(file.sections[k])

\* the passes before P4 give the list the length it has in the input
LengthFromInput ==
    /\ (pc = "P1" /\ pc' = "P2") => Len(file'.sections) = Len(input.sections)
    /\ pc \in {"P2", "P3"} => Len(file'.sections) = Len(file.sections)

\* the written file ends with RPL_CRCS and RPL_FILEINFO and has two
\* sections more than came from the input
WrittenList ==
    outFile'.state = "written" =>
        /\ outFile'.sections = file'.sections
        /\ outFile'.header = file'.header
        /\ Len(outFile'.sections) = Cardinality(FromInput(file')) + 2
        /\ outFile'.sections[Len(outFile'.sections) - 1].type = "SHT_RPL_CRCS"
        /\ outFile'.sections[Len(outFile'.sections)].type = "SHT_RPL_FILEINFO"
        /\ FromInput(file') = 1..(Len(file'.sections) - 2)

\* C17 as stated: after P3 no pass removes or moves a section, the written
\* list ends with RPL_CRCS and RPL_FILEINFO, and every link, RELA info,
\* symbol shndx and the header's shstrndx keep designating the section they
\* designated right after P3.
C17_AsStated ==
    [][ /\ pc \in AfterReordering =>
              /\ SectionsStay
              /\ file'.header.shstrndx = file.header.shstrndx
        /\ LengthFromInput
        /\ WrittenList ]_vars

\* C17: no pass after P3 removes or reorders a section that existed after
\* P3: P7 appends RPL_FILEINFO and P8 inserts RPL_CRCS immediately before
\* it, so every earlier section keeps its index, the final list has two
\* sections more than the input and ends with RPL_CRCS then RPL_FILEINFO,
\* and every link, RELA info and symbol shndx written to the output
\* designates the section it designated right after P3.  The header's
\* shstrndx is set by fixFileHeader to the index of the first section named
\* .shstrtab, 0xFFFF when there is none, and changed by no other pass after
\* P3; it designates the section it designated after P3 when that section
\* is the first one named .shstrtab.
C17_SectionsKeepTheirIndex ==
    [][ /\ pc \in AfterReordering =>
              /\ SectionsStay
              /\ pc # "P9" => file'.header.shstrndx = file.header.shstrndx
              /\ pc = "P9" =>
                    LET named == {k \in 1..Len(file.sections) :
                                     file.sections[k].name = ".shstrtab"}
                    IN  /\ named = {} => file'.header.shstrndx = 65535
                        /\ named # {} =>
                              /\ file'.header.shstrndx + 1 \in named
                              /\ \A k \in named : file'.header.shstrndx + 1 <= k
                        /\ file.header.shstrndx + 1 \in named
                              /\ (\A k \in named : file.header.shstrndx + 1 <= k)
                           => file'.header.shstrndx = file.header.shstrndx
        /\ LengthFromInput
        /\ WrittenList ]_vars

\* a file has been written in which .rela.text, moved by P3, is linked to a
\* symbol table that stands after it, followed by the two added sections
C17_Witness ==
    /\ outFile.state = "written"
    /\ Len(outFile.sections) >= 7
    /\ \E k \in FromInput(file) :
          /\ outFile.sections[k].type = "SHT_RELA"
          /\ outFile.sections[k].link + 1 \in FromInput(file)
          /\ outFile.sections[outFile.sections[k].link + 1].type = "SHT_SYMTAB"
          /\ outFile.sections[k].info = 1
    /\ outFile.header.shstrndx + 1 \in FromInput(file)
    /\ outFile.sections[outFile.header.shstrndx + 1].name = ".shstrtab"

====
